---- MODULE Spec2Model ----
(***************************************************************************)
(* Map-reduce aggregation of question/word statistics per site and per tag *)
(* (process_sites), followed by the "chatty" top-10 rankings               *)
(* (process_chatty, get_chatty) and the emission of the report (main).     *)
(*                                                                         *)
(* A HashMap<String, V> is a function whose DOMAIN is its key set.  A Rust *)
(* String that is split or compared is a sequence of one-character         *)
(* strings; names (sites, tags) are TLA+ strings ordered through Bytes.    *)
(* An f64 ratio words/questions is the exact rational [num, den]: for the  *)
(* small counts of the model, IEEE division is injective on distinct       *)
(* rationals and equal on equal ones, so total_cmp is the rational order.  *)
(***************************************************************************)
EXTENDS Integers, Sequences, FiniteSets, TLC

(* ------------------------------ bounds -------------------------------- *)

\* Lines in all the partitions of one run, together.
MaxLines == 3

\* Partitions (files) of one run.
MaxFiles == 2

\* Size of the worker pool (folders that share one partition's lines).
MaxThreads == 2

\* Lines folded into the three operands of the merge laws, together.
MaxMergeLines == 3

\* Keys of an input vector of get_chatty.
MaxKeys == 11

\* Keys of an input vector of get_chatty that is tried in every order.
MaxPermKeys == 3

\* Lines in all the partitions of one run under fair scheduling, together.
MaxFairLines == 2

\* Times the aggregate of one mapped line is folded into an accumulator.
MaxFolds == 2

\* Texts of the line handed to the map closure.
MaxTexts == 2

\* Characters of the texts of that line, together.
MaxChars == 4

\* Tags of that line, repeats included.
MaxTags == 2

(* --------------------------- names and text --------------------------- *)

SiteNames == {"a", "b"}

\* The keys of the get_chatty unit test, in the order of its input vector.
ChattyKeys ==
    << "num1", "num2", "num3", "num4", "num5", "num6", "num7", "num8",
       "num9", "num10", "num11", "num12", "num13", "num14", "num15" >>

\* The UTF-8 bytes of every name of the model.
Bytes ==
    [ a |-> <<97>>, b |-> <<98>>, x |-> <<120>>, y |-> <<121>>,
      num1 |-> <<110, 117, 109, 49>>, num2 |-> <<110, 117, 109, 50>>,
      num3 |-> <<110, 117, 109, 51>>, num4 |-> <<110, 117, 109, 52>>,
      num5 |-> <<110, 117, 109, 53>>, num6 |-> <<110, 117, 109, 54>>,
      num7 |-> <<110, 117, 109, 55>>, num8 |-> <<110, 117, 109, 56>>,
      num9 |-> <<110, 117, 109, 57>>,
      num10 |-> <<110, 117, 109, 49, 48>>, num11 |-> <<110, 117, 109, 49, 49>>,
      num12 |-> <<110, 117, 109, 49, 50>>, num13 |-> <<110, 117, 109, 49, 51>>,
      num14 |-> <<110, 117, 109, 49, 52>>, num15 |-> <<110, 117, 109, 49, 53>> ]

RECURSIVE BytesLess(_, _)
\* <[u8]>::cmp as Less: lexicographic, a proper prefix first.
BytesLess(s, t) ==
    IF t = <<>> THEN FALSE
    ELSE IF s = <<>> THEN TRUE
    ELSE IF s[1] # t[1] THEN s[1] < t[1]
    ELSE BytesLess(Tail(s), Tail(t))

\* String::cmp(k1, k2) = Less.
StrLess(k1, k2) == BytesLess(Bytes[k1], Bytes[k2])

Whitespace == {" ", "\t"}

RECURSIVE Join(_, _)
\* [String]::join(sep)
Join(texts, sep) ==
    IF texts = <<>> THEN <<>>
    ELSE IF Len(texts) = 1 THEN texts[1]
    ELSE texts[1] \o sep \o Join(Tail(texts), sep)

\* str::split_whitespace().count(): the maximal runs of non-whitespace.
SplitWhitespaceCount(s) ==
    Cardinality({ i \in 1..Len(s) :
                    /\ s[i] \notin Whitespace
                    /\ (i = 1 \/ s[i - 1] \in Whitespace) })

\* A bug: the texts are joined with nothing between them.
WordCountFused(texts) == SplitWhitespaceCount(Join(texts, <<>>))

\* full_text = texts.join(" "); words = full_text.split_whitespace().count()
WordCount(texts) == SplitWhitespaceCount(Join(texts, <<" ">>))

(* ------------------------------ Tag, Site ----------------------------- *)

EmptyMap == [k \in {} |-> 0]

\* Tag::new
NewTag(questions, words) == [questions |-> questions, words |-> words]

\* A bug: self is assigned the argument.
TagAddOverwrite(self, other) ==
    [questions |-> other.questions, words |-> other.words]

\* Tag::add (in place: the value of self afterwards)
TagAdd(self, other) ==
    [questions |-> self.questions + other.questions,
     words |-> self.words + other.words]

\* impl AddAssign for Tag
TagAddAssign(self, other) ==
    [questions |-> self.questions + other.questions,
     words |-> self.words + other.words]

\* Site::new
NewSite(questions, words, tags, chatty_tags) ==
    [questions |-> questions, words |-> words, tags |-> tags,
     chatty_tags |-> chatty_tags]

\* A bug: insert(tag_name, *tag) in place of the entry's and_modify.
SiteAddTagsInsert(selfTags, siteTags) ==
    [t \in DOMAIN selfTags \cup DOMAIN siteTags |->
        IF t \in DOMAIN siteTags THEN siteTags[t] ELSE selfTags[t]]

\* The loop of Site::add: entry(tag_name).and_modify(+=).or_insert(*tag) for
\* every tag of the argument (each key once, so the order does not show).
SiteAddTags(selfTags, siteTags) ==
    [t \in DOMAIN selfTags \cup DOMAIN siteTags |->
        IF t \in DOMAIN selfTags /\ t \in DOMAIN siteTags
            THEN TagAddAssign(selfTags[t], siteTags[t])
        ELSE IF t \in DOMAIN selfTags THEN selfTags[t]
        ELSE siteTags[t]]

\* A bug: the chatty_tags of the argument are appended to those of self.
SiteAddChatty(self, site) ==
    [questions |-> self.questions + site.questions,
     words |-> self.words + site.words,
     tags |-> SiteAddTags(self.tags, site.tags),
     chatty_tags |-> self.chatty_tags \o site.chatty_tags]

\* Site::add (in place: the value of self afterwards)
SiteAdd(self, site) ==
    [questions |-> self.questions + site.questions,
     words |-> self.words + site.words,
     tags |-> SiteAddTags(self.tags, site.tags),
     chatty_tags |-> self.chatty_tags]

(* --------------------------- ProcessedSites --------------------------- *)

PADRON == "106160"

\* ProcessedSites::new
NewProcessedSites(padron, sites, tags, totals) ==
    [padron |-> padron, sites |-> sites, tags |-> tags, totals |-> totals]

\* The identity closure of the reduce.
ReduceIdentity == NewProcessedSites(PADRON, EmptyMap, EmptyMap, EmptyMap)

\* A raw line of a partition: a Line, or one on which an expect() of the map
\* closure fails (it cannot be read, or it is no Line).
Unparsable == [kind |-> "unparsable"]

LineOf(texts, tags) == [kind |-> "line", texts |-> texts, tags |-> tags]

\* Whether the two expect() of the map closure pass.
Parses(raw) == raw.kind = "line"

\* A bug: the tags of a line start at no question.
LineTagsFromZero(tagList, words) ==
    [t \in { tagList[i] : i \in 1..Len(tagList) } |-> NewTag(0, words)]

\* A bug: a tag is counted as often as the line repeats it
\* (entry(tag).and_modify(+=) in place of insert).
LineTagsRepeated(tagList, words) ==
    [t \in { tagList[i] : i \in 1..Len(tagList) } |->
        LET n == Cardinality({ i \in 1..Len(tagList) : tagList[i] = t })
        IN NewTag(n, n * words)]

\* A bug: the words of the line are divided among its tags.
LineTagsDivided(tagList, words) ==
    [t \in { tagList[i] : i \in 1..Len(tagList) } |->
        NewTag(1, words \div Len(tagList))]

\* for tag in line_data.tags { tags.insert(tag, Tag::new(1, words)) }
LineTags(tagList, words) ==
    [t \in { tagList[i] : i \in 1..Len(tagList) } |-> NewTag(1, words)]

\* A bug: the tags of the line are taken for the site's chatty_tags.
MapLineChatty(filename, line_data) ==
    LET words == WordCount(line_data.texts)
        site == NewSite(1, words, LineTags(line_data.tags, words), line_data.tags)
    IN NewProcessedSites(PADRON, [s \in {filename} |-> site], EmptyMap, EmptyMap)

\* The map closure, for a line that parses.
MapLine(filename, line_data) ==
    LET words == WordCount(line_data.texts)
        site == NewSite(1, words, LineTags(line_data.tags, words), <<>>)
    IN NewProcessedSites(PADRON, [s \in {filename} |-> site], EmptyMap, EmptyMap)

\* A bug: a line that cannot be read or parsed is skipped.
MapClosureSkipping(filename, raw) ==
    IF Parses(raw) THEN [panic |-> FALSE, value |-> MapLine(filename, raw)]
    ELSE [panic |-> FALSE, value |-> ReduceIdentity]

\* The map closure on a raw line: it panics, or yields the line's aggregate.
MapClosure(filename, raw) ==
    IF Parses(raw) THEN [panic |-> FALSE, value |-> MapLine(filename, raw)]
    ELSE [panic |-> TRUE]

\* A bug: insert(tag_name, tag.clone()) in place of the entry's and_modify.
FoldSiteTagsInsert(totalTags, siteTags) ==
    [t \in DOMAIN totalTags \cup DOMAIN siteTags |->
        IF t \in DOMAIN siteTags THEN siteTags[t] ELSE totalTags[t]]

\* total_sites.tags.entry(tag_name).and_modify(|t| t.add(tag)).or_insert(tag.clone())
\* for every tag of one site of the right operand.
FoldSiteTags(totalTags, siteTags) ==
    [t \in DOMAIN totalTags \cup DOMAIN siteTags |->
        IF t \in DOMAIN totalTags /\ t \in DOMAIN siteTags
            THEN TagAdd(totalTags[t], siteTags[t])
        ELSE IF t \in DOMAIN totalTags THEN totalTags[t]
        ELSE siteTags[t]]

\* A bug: insert(site_name, site.clone()) in place of the entry's and_modify.
UpsertSiteInsert(sites, site_name, site) ==
    [s \in DOMAIN sites \cup {site_name} |->
        IF s # site_name THEN sites[s] ELSE site]

\* total_sites.sites.entry(site_name).and_modify(|s| s.add(site)).or_insert(site.clone())
UpsertSite(sites, site_name, site) ==
    [s \in DOMAIN sites \cup {site_name} |->
        IF s # site_name THEN sites[s]
        ELSE IF site_name \in DOMAIN sites THEN SiteAdd(sites[site_name], site)
        ELSE site]

\* A bug: the global tags are folded from the site as merged into
\* total_sites, not from the site of the right operand.
ReduceSiteMergedTags(total_sites, site_name, site) ==
    LET sites2 == UpsertSite(total_sites.sites, site_name, site)
    IN [total_sites EXCEPT
           !.sites = sites2,
           !.tags = FoldSiteTags(total_sites.tags, sites2[site_name].tags)]

\* One iteration of the for_each of the reduce closure.
ReduceSite(total_sites, site_name, site) ==
    [total_sites EXCEPT
        !.sites = UpsertSite(total_sites.sites, site_name, site),
        !.tags = FoldSiteTags(total_sites.tags, site.tags)]

RECURSIVE ReduceSites(_, _, _)
\* processed_sites.sites.iter_mut().for_each(...) over the sites in `left`.
ReduceSites(total_sites, processed_sites, left) ==
    IF left = {} THEN total_sites
    ELSE LET site_name == CHOOSE s \in left : TRUE
         IN ReduceSites(
                ReduceSite(total_sites, site_name, processed_sites.sites[site_name]),
                processed_sites, left \ {site_name})

\* The reduce closure |total_sites, processed_sites| -> total_sites.
ReduceOp(total_sites, processed_sites) ==
    ReduceSites(total_sites, processed_sites, DOMAIN processed_sites.sites)

(* ------------------------------ rankings ------------------------------ *)

\* The top length of a ranking: chatty_items[0..10].
TopK == 10

\* words as f64 / questions as f64
Ratio(words, questions) == [num |-> words, den |-> questions]

\* f64::total_cmp(r1, r2) = Less, of two ratios of counts (den >= 1).
RatioLess(r1, r2) == r1.num * r2.den < r2.num * r1.den

\* One element (name, ratio) of the vector handed to get_chatty.
Item(key, words, questions) == [key |-> key, ratio |-> Ratio(words, questions)]

\* A bug: the closure compares the ratios alone.
SortsBeforeByRatio(item_1, item_2) == RatioLess(item_2.ratio, item_1.ratio)

\* The closure of sort_by as "item_1 goes before item_2" (Ordering::Less):
\* item_2.1.total_cmp(item_1.1), and on Equal item_1.0.cmp(item_2.0).
SortsBefore(item_1, item_2) ==
    IF RatioLess(item_2.ratio, item_1.ratio) THEN TRUE
    ELSE IF RatioLess(item_1.ratio, item_2.ratio) THEN FALSE
    ELSE StrLess(item_1.key, item_2.key)

RECURSIVE InsertSorted(_, _)
\* `item` into the sorted `sorted`, behind every element it does not sort
\* before (slice::sort_by is stable).
InsertSorted(sorted, item) ==
    IF sorted = <<>> THEN <<item>>
    ELSE IF SortsBefore(item, sorted[1]) THEN <<item>> \o sorted
    ELSE <<sorted[1]>> \o InsertSorted(Tail(sorted), item)

RECURSIVE SortBy(_)
\* chatty_items.sort_by(...)
SortBy(chatty_items) ==
    IF chatty_items = <<>> THEN <<>>
    ELSE InsertSorted(SortBy(SubSeq(chatty_items, 1, Len(chatty_items) - 1)),
                      chatty_items[Len(chatty_items)])

\* A bug: the last ten are kept (chatty_items[len - 10..]).
TruncateToLast(chatty_items) ==
    IF Len(chatty_items) > TopK
        THEN SubSeq(chatty_items, Len(chatty_items) - TopK + 1, Len(chatty_items))
    ELSE chatty_items

\* if chatty_items.len() > 10 { chatty_items = chatty_items[0..10].to_vec() }
Truncate(chatty_items) ==
    IF Len(chatty_items) > TopK THEN SubSeq(chatty_items, 1, TopK)
    ELSE chatty_items

\* get_chatty
GetChatty(chatty_items) ==
    LET kept == Truncate(SortBy(chatty_items))
    IN [i \in 1..Len(kept) |-> kept[i].key]

\* The orders in which a HashMap with key set S may be iterated.
IterOrders(S) ==
    { o \in [1..Cardinality(S) -> S] : \A i, j \in DOMAIN o : o[i] = o[j] => i = j }

\* map.par_iter().map(|(name, x)| (name, x.words / x.questions)).collect(),
\* the map iterated in `order`.
RatioItems(map, order) ==
    [i \in 1..Len(order) |-> Item(order[i], map[order[i]].words, map[order[i]].questions)]

\* The per-site closure of process_chatty: site.chatty_tags.extend(get_chatty(..))
ChattySite(site, order) ==
    [site EXCEPT !.chatty_tags = @ \o GetChatty(RatioItems(site.tags, order))]

\* HashMap::insert(key, value)
MapInsert(map, key, value) ==
    [k \in DOMAIN map \cup {key} |-> IF k = key THEN value ELSE map[k]]

\* A bug: the chatty_tags of a site are ranked from the global tags.
ProcessChattyGlobalTags(self, siteOrder, tagOrder, siteTagOrder) ==
    LET t1 == MapInsert(self.totals, "chatty_sites",
                        GetChatty(RatioItems(self.sites, siteOrder)))
        t2 == MapInsert(t1, "chatty_tags",
                        GetChatty(RatioItems(self.tags, tagOrder)))
    IN [self EXCEPT
           !.totals = t2,
           !.sites = [s \in DOMAIN self.sites |->
                         [self.sites[s] EXCEPT
                             !.chatty_tags =
                                 @ \o GetChatty(RatioItems(self.tags, tagOrder))]]]

\* A bug: a ranking of no key is not inserted into totals.
ProcessChattySkipsEmpty(self, siteOrder, tagOrder, siteTagOrder) ==
    LET cs == GetChatty(RatioItems(self.sites, siteOrder))
        ct == GetChatty(RatioItems(self.tags, tagOrder))
        t1 == IF cs = <<>> THEN self.totals
              ELSE MapInsert(self.totals, "chatty_sites", cs)
        t2 == IF ct = <<>> THEN t1 ELSE MapInsert(t1, "chatty_tags", ct)
    IN [self EXCEPT
           !.totals = t2,
           !.sites = [s \in DOMAIN self.sites |->
                         ChattySite(self.sites[s], siteTagOrder[s])]]

\* ProcessedSites::process_chatty, its three maps iterated in siteOrder,
\* tagOrder and, for the tags of site s, siteTagOrder[s].
ProcessChatty(self, siteOrder, tagOrder, siteTagOrder) ==
    LET t1 == MapInsert(self.totals, "chatty_sites",
                        GetChatty(RatioItems(self.sites, siteOrder)))
        t2 == MapInsert(t1, "chatty_tags",
                        GetChatty(RatioItems(self.tags, tagOrder)))
    IN [self EXCEPT
           !.totals = t2,
           !.sites = [s \in DOMAIN self.sites |->
                         ChattySite(self.sites[s], siteTagOrder[s])]]

\* Every way the hash maps of `self` may be iterated by process_chatty.
ChattyOrders(self) ==
    [siteOrder : IterOrders(DOMAIN self.sites),
     tagOrder : IterOrders(DOMAIN self.tags),
     siteTagOrder : { f \in [DOMAIN self.sites ->
                                 UNION { IterOrders(DOMAIN self.sites[s].tags) :
                                            s \in DOMAIN self.sites }] :
                        \A s \in DOMAIN self.sites :
                            f[s] \in IterOrders(DOMAIN self.sites[s].tags) }]

(* ------------------------------- inputs ------------------------------- *)

\* The texts of the lines of a run: ["a"] and ["a b", "c"].
TextChoices == { << <<"a">> >>, << <<"a", " ", "b">>, <<"c">> >> }

\* The tags of the lines of a run.
TagChoices == { <<>>, <<"x">>, <<"x", "y">> }

\* The raw lines a partition may hold.
RawLines ==
    { LineOf(texts, tags) : texts \in TextChoices, tags \in TagChoices }
        \cup {Unparsable}

\* Sequences over S of length at most n.
SeqsUpTo(S, n) == UNION { [1..k -> S] : k \in 0..n }

\* One path of json_paths: the site name of its file name, whether
\* File::open succeeds, and the lines the file holds, at most n
\* (the lines of a file that cannot be opened are never looked at: none).
Partitions(n) ==
    [name : SiteNames, readable : {TRUE}, lines : SeqsUpTo(RawLines, n)]
        \cup [name : SiteNames, readable : {FALSE}, lines : {<<>>}]

RECURSIVE PathSeqs(_, _)
\* The vectors of k paths that hold at most n lines together.
PathSeqs(k, n) ==
    IF k = 0 THEN {<<>>}
    ELSE UNION { { <<p>> \o rest : rest \in PathSeqs(k - 1, n - Len(p.lines)) } :
                    p \in Partitions(n) }

\* The values of json_paths holding at most n lines in all.
Inputs(n) == UNION { PathSeqs(k, n) : k \in 0..MaxFiles }

(* --------------------------- the program's run ------------------------ *)

VARIABLES
    json_paths,       \* the argument of process_sites
    num_threads,      \* the size of the rayon pool
    opened,           \* per path: "no", "open" or "failed" (File::open)
    cursor,           \* per path: the lines pulled from reader.lines() so far
    folder,           \* per (path, worker): the ReduceFolder's state and item
    panicked,         \* whether a worker panicked (an expect failed)
    pc,               \* where main is
    processed_sites,  \* main's variable of that name
    stdout,           \* the reports printed
    chatty_items,     \* the argument of a call of get_chatty
    chatty,           \* the result of that call
    op_a, op_b, op_c, \* operands of the reduce closure
    merged,           \* the results of the reduce closure on them
    arg_filename,     \* the (filename, line) handed to the map closure
    arg_line,
    map_result,       \* what the map closure made of them
    site1, site2,     \* site1.add(&site2)
    tag1, tag2,       \* tag1.add(&tag2)
    called            \* which of the two add was called

runVars == <<json_paths, num_threads, opened, cursor, folder, panicked, pc,
             processed_sites, stdout>>

chattyVars == <<chatty_items, chatty>>

mergeVars == <<op_a, op_b, op_c, merged>>

mapVars == <<arg_filename, arg_line, map_result>>

addVars == <<site1, site2, tag1, tag2, called>>

vars == <<runVars, chattyVars, mergeVars, mapVars, addVars>>

Paths == 1..Len(json_paths)

Folders == Paths \X (1..num_threads)

NoFolder == [st |-> "unborn", item |-> ReduceIdentity]

ChattyIdle == chatty_items = <<>> /\ chatty = <<>>

MergeIdle ==
    /\ op_a = ReduceIdentity /\ op_b = ReduceIdentity /\ op_c = ReduceIdentity
    /\ merged = <<>>

MapIdle ==
    /\ arg_filename = "a" /\ arg_line = LineOf(<<>>, <<>>) /\ map_result = <<>>

AddIdle ==
    /\ site1 = NewSite(0, 0, EmptyMap, <<>>) /\ site2 = NewSite(0, 0, EmptyMap, <<>>)
    /\ tag1 = NewTag(0, 0) /\ tag2 = NewTag(0, 0)
    /\ called = "none"

Init ==
    /\ json_paths \in Inputs(MaxLines)
    /\ num_threads \in 1..MaxThreads
    /\ opened = [p \in Paths |-> "no"]
    /\ cursor = [p \in Paths |-> 0]
    /\ folder = [f \in Folders |-> NoFolder]
    /\ panicked = FALSE
    /\ pc = "process_sites"
    /\ processed_sites = ReduceIdentity
    /\ stdout = <<>>
    /\ ChattyIdle
    /\ MergeIdle
    /\ MapIdle
    /\ AddIdle

\* The lines of path p are all pulled.
Exhausted(p) == cursor[p] = Len(json_paths[p].lines)

\* The folder has seen the end of its lines: its item is a result.
Complete(f) == folder[f].st = "folding" /\ Exhausted(f[1])

\* The flat_map closure on path p: File::open, expect, and the par_bridge
\* that splits the lines among the workers' folders, each started at the
\* identity.
OpenFile(p) ==
    /\ pc = "process_sites"
    /\ opened[p] = "no"
    /\ IF json_paths[p].readable
          THEN /\ opened' = [opened EXCEPT ![p] = "open"]
               /\ folder' = [f \in Folders |->
                                IF f[1] = p
                                    THEN [st |-> "folding", item |-> ReduceIdentity]
                                    ELSE folder[f]]
               /\ UNCHANGED panicked
          ELSE /\ opened' = [opened EXCEPT ![p] = "failed"]
               /\ panicked' = TRUE
               /\ UNCHANGED folder
    /\ UNCHANGED <<json_paths, num_threads, cursor, pc, processed_sites, stdout>>
    /\ UNCHANGED <<chattyVars, mergeVars, mapVars, addVars>>

\* The folder pulled a line.  The workers of a path are numbered in the order
\* in which they pull their first line.
Started(f) == folder[f].st = "panicked" \/ folder[f].item # ReduceIdentity

\* A bug: the first mapped line is taken as the accumulator as it is.
ConsumeSeeded(item, mapped) ==
    IF item = ReduceIdentity THEN mapped ELSE ReduceOp(item, mapped)

\* ReduceFolder::consume: the item of a folder after it consumed `mapped`.
Consume(item, mapped) == ReduceOp(item, mapped)

\* A worker pulls the next line of path f[1], maps it and folds it into its
\* folder: ReduceFolder::consume.  A line that cannot be read or parsed
\* panics in the map closure.
ScanLine(f) ==
    /\ pc = "process_sites"
    /\ folder[f].st = "folding"
    /\ ~Exhausted(f[1])
    /\ \A w \in 1..(f[2] - 1) : Started(<<f[1], w>>)
    /\ LET mapped == MapClosure(json_paths[f[1]].name,
                                json_paths[f[1]].lines[cursor[f[1]] + 1])
       IN /\ cursor' = [cursor EXCEPT ![f[1]] = @ + 1]
          /\ IF mapped.panic
                THEN /\ folder' = [folder EXCEPT ![f].st = "panicked"]
                     /\ panicked' = TRUE
                ELSE /\ folder' = [folder EXCEPT ![f].item = Consume(@, mapped.value)]
                     /\ UNCHANGED panicked
    /\ UNCHANGED <<json_paths, num_threads, opened, pc, processed_sites, stdout>>
    /\ UNCHANGED <<chattyVars, mergeVars, mapVars, addVars>>

\* The reducer joins two results: reduce_op(left, right).  The result is
\* kept in the folder of the two that comes first.
Merge(l, r) ==
    /\ pc = "process_sites"
    /\ l # r
    /\ Complete(l) /\ Complete(r)
    /\ LET keep == IF l[1] < r[1] \/ (l[1] = r[1] /\ l[2] < r[2]) THEN l ELSE r
           drop == IF keep = l THEN r ELSE l
       IN folder' = [folder EXCEPT
                        ![keep].item = ReduceOp(folder[l].item, folder[r].item),
                        ![drop] = [st |-> "merged", item |-> ReduceIdentity]]
    /\ UNCHANGED <<json_paths, num_threads, opened, cursor, panicked, pc,
                   processed_sites, stdout>>
    /\ UNCHANGED <<chattyVars, mergeVars, mapVars, addVars>>

\* The folders whose result is not yet merged into another.
Live == { f \in Folders : folder[f].st # "merged" }

\* A bug: the reduce ends with the first complete folder.
ReduceFinishedEager == \E f \in Live : Complete(f)

\* The reduce has one result: every path was opened, every folder is
\* complete, and all results but one are merged.
ReduceFinished ==
    /\ \A p \in Paths : opened[p] = "open"
    /\ \A f \in Live : Complete(f)
    /\ Cardinality(Live) <= 1

\* The result of the reduce: of no folder at all, the identity.
ReduceResult ==
    IF Live = {} THEN ReduceIdentity ELSE folder[CHOOSE f \in Live : TRUE].item

\* process_sites returns to main.
Return ==
    /\ pc = "process_sites"
    /\ ~panicked
    /\ ReduceFinished
    /\ processed_sites' = ReduceResult
    /\ pc' = "process_chatty"
    /\ UNCHANGED <<json_paths, num_threads, opened, cursor, folder, panicked, stdout>>
    /\ UNCHANGED <<chattyVars, mergeVars, mapVars, addVars>>

\* A bug: main waits for the result of every worker, and that of a worker
\* that panicked never comes.
UnwindWhenFinished ==
    /\ pc = "process_sites"
    /\ panicked
    /\ ReduceFinished
    /\ pc' = "panic"
    /\ UNCHANGED <<json_paths, num_threads, opened, cursor, folder, panicked,
                   processed_sites, stdout>>
    /\ UNCHANGED <<chattyVars, mergeVars, mapVars, addVars>>

\* rayon resumes the worker's panic in main, which unwinds.
Unwind ==
    /\ pc = "process_sites"
    /\ panicked
    /\ pc' = "panic"
    /\ UNCHANGED <<json_paths, num_threads, opened, cursor, folder, panicked,
                   processed_sites, stdout>>
    /\ UNCHANGED <<chattyVars, mergeVars, mapVars, addVars>>

\* A bug: process_chatty is called again before the report is serialized.
RankAgain ==
    /\ pc \in {"process_chatty", "println"}
    /\ \E o \in ChattyOrders(processed_sites) :
          processed_sites' =
              ProcessChatty(processed_sites, o.siteOrder, o.tagOrder, o.siteTagOrder)
    /\ pc' = "println"
    /\ UNCHANGED <<json_paths, num_threads, opened, cursor, folder, panicked, stdout>>
    /\ UNCHANGED <<chattyVars, mergeVars, mapVars, addVars>>

\* main: processed_sites.process_chatty()
Rank ==
    /\ pc = "process_chatty"
    /\ \E o \in ChattyOrders(processed_sites) :
          processed_sites' =
              ProcessChatty(processed_sites, o.siteOrder, o.tagOrder, o.siteTagOrder)
    /\ pc' = "println"
    /\ UNCHANGED <<json_paths, num_threads, opened, cursor, folder, panicked, stdout>>
    /\ UNCHANGED <<chattyVars, mergeVars, mapVars, addVars>>

\* main: println!("{}", serialized)
Emit ==
    /\ pc = "println"
    /\ stdout' = Append(stdout, processed_sites)
    /\ pc' = "exit"
    /\ UNCHANGED <<json_paths, num_threads, opened, cursor, folder, panicked,
                   processed_sites>>
    /\ UNCHANGED <<chattyVars, mergeVars, mapVars, addVars>>

Next ==
    \/ \E p \in Paths : OpenFile(p)
    \/ \E f \in Folders : ScanLine(f)
    \/ \E l, r \in Folders : Merge(l, r)
    \/ Return
    \/ Unwind
    \/ Rank
    \/ Emit

Spec == Init /\ [][Next]_vars

RECURSIVE LinesHeld(_)
\* The lines the files of paths hold together.
LinesHeld(paths) ==
    IF paths = <<>> THEN 0
    ELSE Len(Head(paths).lines) + LinesHeld(Tail(paths))

\* The runs under fair scheduling start from files of at most
\* MaxFairLines lines in all.
InitFair ==
    /\ Init
    /\ LinesHeld(json_paths) <= MaxFairLines

\* The run under fair scheduling: a worker that can open a file, pull a
\* line or join two results, and main when it can go on, is not kept from
\* its step forever.
FairSpec == InitFair /\ [][Next]_vars /\ WF_vars(Next)

(* ======================= properties of the run ======================== *)

\* The lines of the run, each as <<path, index>>.
AllLines == { pl \in Paths \X (1..MaxLines) : pl[2] <= Len(json_paths[pl[1]].lines) }

RawLine(pl) == json_paths[pl[1]].lines[pl[2]]

\* The lines of the partitions named s.
LinesOfSite(s) == { pl \in AllLines : json_paths[pl[1]].name = s }

\* Every partition can be opened and every line of it is read and parsed.
AllParse ==
    /\ \A p \in Paths : json_paths[p].readable
    /\ \A pl \in AllLines : Parses(RawLine(pl))

\* Every partition is opened and every line of it is pulled.
AllScanned == \A p \in Paths : opened[p] = "open" /\ Exhausted(p)

\* process_sites has returned to main.
Returned == pc \in {"process_chatty", "println", "exit"}

\* Two folders of distinct results were joined by the reducer.
SomeMerged == \E f \in Folders : folder[f].st = "merged"

RECURSIVE SeqFoldLines(_, _, _)
\* One accumulator consuming the lines of one partition in file order.
SeqFoldLines(item, filename, lines) ==
    IF lines = <<>> THEN item
    ELSE SeqFoldLines(Consume(item, MapLine(filename, lines[1])), filename, Tail(lines))

RECURSIVE SeqFoldPaths(_, _)
\* One accumulator, started at the identity, consuming every line of every
\* partition in order: the sequential fold of one worker.
SeqFoldPaths(item, paths) ==
    IF paths = <<>> THEN item
    ELSE SeqFoldPaths(SeqFoldLines(item, paths[1].name, paths[1].lines), Tail(paths))

SequentialAggregate == SeqFoldPaths(ReduceIdentity, json_paths)

\* The report of the sequential fold, its maps iterated in some fixed order.
SequentialReport ==
    LET o == CHOOSE o \in ChattyOrders(SequentialAggregate) : TRUE
    IN ProcessChatty(SequentialAggregate, o.siteOrder, o.tagOrder, o.siteTagOrder)

\* C1: whatever the assignment of lines to workers, the order of their
\* steps and the shape of the reduction tree, process_sites returns the
\* aggregate of the sequential fold of one accumulator, and the report
\* ranked from it and printed is the report of that fold.
C1_ReportIndependentOfSchedule ==
    /\ pc = "process_chatty" => processed_sites = SequentialAggregate
    /\ pc \in {"println", "exit"} => processed_sites = SequentialReport
    /\ \A i \in 1..Len(stdout) : stdout[i] = SequentialReport

\* The report is printed after two workers shared the lines of one
\* partition, a second partition of another site was scanned, and the
\* results were joined.
C1_Witness ==
    /\ pc = "exit" /\ Len(stdout) = 1
    /\ num_threads = 2 /\ Len(json_paths) = 2
    /\ Len(json_paths[1].lines) = 2 /\ Len(json_paths[2].lines) = 1
    /\ json_paths[1].name # json_paths[2].name
    /\ Cardinality({ f \in Folders : folder[f].st = "merged" }) = 3
    /\ Len(processed_sites.totals["chatty_sites"]) = 2
    /\ Len(processed_sites.totals["chatty_tags"]) = 2

RECURSIVE SumTagField(_, _, _, _)
\* The sum of `field` of tag t over the sites S of `sites` that carry t.
SumTagField(sites, t, field, S) ==
    IF S = {} THEN 0
    ELSE LET s == CHOOSE x \in S : TRUE
         IN (IF t \in DOMAIN sites[s].tags THEN sites[s].tags[t][field] ELSE 0)
                + SumTagField(sites, t, field, S \ {s})

\* The global tags of the aggregate are the sums of its sites' tags.
TagsAreSiteSums(ps) ==
    /\ DOMAIN ps.tags = UNION { DOMAIN ps.sites[s].tags : s \in DOMAIN ps.sites }
    /\ \A t \in DOMAIN ps.tags :
          /\ ps.tags[t].questions = SumTagField(ps.sites, t, "questions", DOMAIN ps.sites)
          /\ ps.tags[t].words = SumTagField(ps.sites, t, "words", DOMAIN ps.sites)

\* C2: in the item of every folder after every step of the reduce, and in
\* the aggregate process_sites returns, each global tag holds the sums of
\* that tag's questions and words over the sites, and the global tags are
\* exactly the tags of the sites.
C2_GlobalTagsAreSiteSums ==
    /\ \A f \in Folders : TagsAreSiteSums(folder[f].item)
    /\ TagsAreSiteSums(processed_sites)

\* Returned after a join of results: tag x is carried by two sites and tag y
\* by one of them.
C2_Witness ==
    /\ pc = "process_chatty"
    /\ SomeMerged
    /\ DOMAIN processed_sites.sites = {"a", "b"}
    /\ "x" \in DOMAIN processed_sites.sites["a"].tags
    /\ DOMAIN processed_sites.sites["b"].tags = {"x", "y"}
    /\ processed_sites.tags["x"].questions = 3
    /\ processed_sites.tags["y"].questions = 1

RECURSIVE SumWords(_)
\* The words of the lines in L, each line once.
SumWords(L) ==
    IF L = {} THEN 0
    ELSE LET pl == CHOOSE x \in L : TRUE
         IN WordCount(RawLine(pl).texts) + SumWords(L \ {pl})

C8_NoReportUnlessAllParse ==
    (Returned \/ stdout # <<>>) => AllParse

\* The run ended in the panic of a line that does not parse, after another
\* worker folded a line of the same partition; nothing is printed.
C8_Witness ==
    /\ pc = "panic" /\ stdout = <<>>
    /\ \E f, g \in Folders :
          /\ f[1] = g[1]
          /\ folder[f].st = "panicked"
          /\ folder[g].st = "folding" /\ folder[g].item # ReduceIdentity

\* Every key of the aggregate counts at least one question.
QuestionsPositive(ps) ==
    /\ \A s \in DOMAIN ps.sites :
          /\ ps.sites[s].questions >= 1
          /\ \A t \in DOMAIN ps.sites[s].tags : ps.sites[s].tags[t].questions >= 1
    /\ \A t \in DOMAIN ps.tags : ps.tags[t].questions >= 1

\* C9: in every state of the run, every site, every tag of a site and every
\* global tag, of every folder's item and of main's aggregate, has
\* questions >= 1: the ratios of process_chatty have a divisor >= 1.
C9_QuestionsPositive ==
    /\ \A f \in Folders : QuestionsPositive(folder[f].item)
    /\ QuestionsPositive(processed_sites)

\* Ranked: the ratios of two sites and of two tags were computed.
C9_Witness ==
    /\ pc = "println"
    /\ Len(processed_sites.totals["chatty_sites"]) = 2
    /\ Len(processed_sites.totals["chatty_tags"]) = 2
    /\ \E s \in DOMAIN processed_sites.sites : processed_sites.sites[s].words = 4

\* Every line of every partition is pulled and mapped.
AllLinesScanned == \A p \in Paths : Exhausted(p)

\* A step of the reducer that joins two results that both hold lines.
JoinsResults ==
    \E l, r \in Folders :
        /\ Merge(l, r)
        /\ folder[l].item # ReduceIdentity /\ folder[r].item # ReduceIdentity

\* C10 as stated: no two results are joined by the reduce before every line
\* of every partition is scanned, and nothing is ranked before the reduce
\* has finished.
C10_PhasesDoNotOverlap ==
    /\ [][AllParse /\ JoinsResults => AllLinesScanned]_vars
    /\ [](pc \in {"println", "exit"} => AllScanned /\ Cardinality(Live) <= 1)

\* C10, amended: ranking starts only after every line of every partition is
\* scanned and all the results are joined into one; the scan and the reduce
\* are not ordered (results are joined while lines are still unscanned).
C10_RankAfterScanAndReduce ==
    (pc \in {"println", "exit"} \/ processed_sites.totals # EmptyMap) =>
        /\ AllScanned
        /\ Cardinality(Live) <= 1
        /\ \A f \in Live : folder[f].st = "folding"

\* Ranked, after a run in which results were joined.
C10_Witness ==
    /\ pc = "println"
    /\ SomeMerged
    /\ Cardinality(AllLines) = 3
    /\ DOMAIN processed_sites.totals = {"chatty_sites", "chatty_tags"}

\* C11: process_chatty is called once in a run: it starts from an aggregate
\* that was never ranked, which is the one result of the finished reduce;
\* once it has ranked, it is not called again and no folder is joined or
\* changed; and the one report printed is that ranking of the result of
\* the reduce.
C11_RankOnceAfterLastMerge ==
    /\ [][Rank => /\ processed_sites.totals = EmptyMap
                 /\ ReduceFinished
                 /\ processed_sites = ReduceResult]_vars
    /\ [][processed_sites.totals # EmptyMap =>
              /\ ~Rank
              /\ \A l, r \in Folders : ~Merge(l, r)
              /\ folder' = folder]_vars
    /\ [](stdout # <<>> =>
              /\ Len(stdout) = 1
              /\ stdout[1] = processed_sites
              /\ \E o \in ChattyOrders(ReduceResult) :
                    stdout[1] = ProcessChatty(ReduceResult, o.siteOrder, o.tagOrder,
                                              o.siteTagOrder))

\* The report of a run of two workers is printed: the three lines of two
\* partitions were folded and the results joined, then ranked.
C11_Witness ==
    /\ pc = "exit" /\ Len(stdout) = 1
    /\ SomeMerged /\ num_threads = 2
    /\ Cardinality(AllLines) = 3
    /\ DOMAIN stdout[1].sites = {"a", "b"}
    /\ stdout[1].totals["chatty_sites"] = <<"b", "a">>

\* C12: once process_sites and process_chatty have run, totals has the two
\* keys "chatty_sites" and "chatty_tags" and no other, for every input and
\* the empty one; chatty_sites lists keys of sites, and chatty_tags keys of
\* the global tags.
C12_TotalsHasTwoRankings ==
    pc \in {"println", "exit"} =>
        LET totals == processed_sites.totals
        IN /\ DOMAIN totals = {"chatty_sites", "chatty_tags"}
           /\ Cardinality(DOMAIN totals) = 2
           /\ \A i \in 1..Len(totals["chatty_sites"]) :
                 totals["chatty_sites"][i] \in DOMAIN processed_sites.sites
           /\ \A i \in 1..Len(totals["chatty_tags"]) :
                 totals["chatty_tags"][i] \in DOMAIN processed_sites.tags

\* Ranked from no partition at all: both rankings are there, and empty.
C12_Witness ==
    /\ pc = "println"
    /\ json_paths = <<>>
    /\ processed_sites.totals["chatty_sites"] = <<>>
    /\ processed_sites.totals["chatty_tags"] = <<>>

\* No ranking field of the aggregate is populated.
RankingsEmpty(ps) ==
    /\ ps.totals = EmptyMap
    /\ \A s \in DOMAIN ps.sites : ps.sites[s].chatty_tags = <<>>

\* C13: in the item of every folder after every step of the reduce, in any
\* order of the steps, and in the aggregate process_sites returns, totals is
\* empty and the chatty_tags of every site are empty.
C13_MergeLeavesRankingsEmpty ==
    /\ \A f \in Folders : RankingsEmpty(folder[f].item)
    /\ pc \in {"process_sites", "process_chatty"} => RankingsEmpty(processed_sites)

\* Returned after a join: a site that Site::add merged from two lines, and
\* a second site, both with tags.
C13_Witness ==
    /\ pc = "process_chatty"
    /\ SomeMerged
    /\ DOMAIN processed_sites.sites = {"a", "b"}
    /\ processed_sites.sites["a"].questions = 2
    /\ DOMAIN processed_sites.sites["a"].tags = {"x", "y"}
    /\ DOMAIN processed_sites.sites["b"].tags = {"x"}

\* C15 as stated: the aggregate process_sites returns has as many sites as
\* json_paths has files.
C15_AsManySitesAsFiles ==
    pc = "process_chatty" =>
        Cardinality(DOMAIN processed_sites.sites) = Len(json_paths)

\* Every key of the tag map `before` is a key of `after`, with questions
\* and words that are not less.
TagsGrow(before, after) ==
    /\ DOMAIN before \subseteq DOMAIN after
    /\ \A t \in DOMAIN before :
          /\ after[t].questions >= before[t].questions
          /\ after[t].words >= before[t].words

\* Every site, site tag and global tag of the aggregate `before` is in
\* `after`, with counters that are not less.
Grows(before, after) ==
    /\ DOMAIN before.sites \subseteq DOMAIN after.sites
    /\ \A s \in DOMAIN before.sites :
          /\ after.sites[s].questions >= before.sites[s].questions
          /\ after.sites[s].words >= before.sites[s].words
          /\ TagsGrow(before.sites[s].tags, after.sites[s].tags)
    /\ TagsGrow(before.tags, after.tags)

\* C16: in every step of the reduce, a folder consuming a mapped line or
\* the reducer joining two results, every key of the sites, of the sites'
\* tags and of the global tags of the left (accumulating) aggregate is a key
\* of the result, with questions and words not less than before the step.
C16_CountersNeverDecrease ==
    [][/\ \A f \in Folders :
             ScanLine(f) => Grows(folder[f].item, folder'[f].item)
       /\ \A l, r \in Folders :
             Merge(l, r) =>
                 \E k \in {l, r} :
                     /\ folder'[k].st = "folding"
                     /\ Grows(folder[l].item, folder'[k].item)]_vars

\* A folder holds the join of two results and a third line of the same
\* site: its tag x has grown to three questions.
C16_Witness ==
    /\ pc = "process_sites"
    /\ SomeMerged
    /\ \E f \in Live :
          /\ DOMAIN folder[f].item.sites = {"a"}
          /\ folder[f].item.sites["a"].questions = 3
          /\ "x" \in DOMAIN folder[f].item.tags
          /\ folder[f].item.tags["x"].questions = 3
          /\ folder[f].item.sites["a"].tags["x"].words = 5

\* The run has ended: the report is printed and main returned, every line
\* scanned and every result joined; or main panicked.
Terminated ==
    \/ /\ pc = "exit"
       /\ AllParse
       /\ Len(stdout) = 1
       /\ AllScanned
       /\ Cardinality(Live) <= 1
    \/ /\ pc = "panic"
       /\ ~AllParse
       /\ stdout = <<>>

\* C17: under fair scheduling every run ends, and stays ended: with every
\* partition readable and every line parsed it prints one report, all lines
\* scanned and all results joined; with a partition or a line that fails it
\* panics and prints nothing.
C17_RunTerminates == <>[]Terminated

\* A run of two workers over two partitions that hold lines has ended with
\* its report, all results joined into one.
C17_Witness ==
    /\ pc = "exit" /\ Len(stdout) = 1
    /\ num_threads = 2 /\ Len(json_paths) = 2
    /\ Cardinality(AllLines) = MaxFairLines
    /\ SomeMerged
    /\ AllScanned
    /\ Cardinality(Live) = 1

(* ================== the reduce closure as an operation ================ *)

\* The aggregates the map stage produces: one per site name and line.
LineAggregates ==
    { MapLine(s, LineOf(texts, tags)) :
        s \in SiteNames, texts \in TextChoices, tags \in TagChoices }

\* The lines an aggregate holds.
LinesIn(ps) ==
    LET RECURSIVE Sum(_)
        Sum(S) == IF S = {} THEN 0
                  ELSE LET s == CHOOSE x \in S : TRUE
                       IN ps.sites[s].questions + Sum(S \ {s})
    IN Sum(DOMAIN ps.sites)

RunIdle ==
    /\ json_paths = <<>> /\ num_threads = 1
    /\ opened = <<>> /\ cursor = <<>> /\ folder = <<>>
    /\ panicked = FALSE /\ pc = "idle"
    /\ processed_sites = ReduceIdentity /\ stdout = <<>>

InitMerge ==
    /\ RunIdle
    /\ ChattyIdle
    /\ MergeIdle
    /\ MapIdle
    /\ AddIdle

\* Room for one more line in the operands.
MergeRoom == LinesIn(op_a) + LinesIn(op_b) + LinesIn(op_c) < MaxMergeLines

\* A fresh operand: an aggregate of the map stage in place of the identity.
\* An operand that grows: the reduce closure applied to it and an aggregate
\* of the map stage.
GrowOperand(op, op2) ==
    /\ merged = <<>>
    /\ MergeRoom
    /\ \E x \in LineAggregates : op2 \in {x, ReduceOp(op, x)}

GrowA ==
    /\ GrowOperand(op_a, op_a')
    /\ UNCHANGED <<op_b, op_c, merged, runVars, chattyVars, mapVars, addVars>>

GrowB ==
    /\ GrowOperand(op_b, op_b')
    /\ UNCHANGED <<op_a, op_c, merged, runVars, chattyVars, mapVars, addVars>>

GrowC ==
    /\ GrowOperand(op_c, op_c')
    /\ UNCHANGED <<op_a, op_b, merged, runVars, chattyVars, mapVars, addVars>>

\* The reduce closure on the operands, in both orders and both groupings.
ApplyMerge ==
    /\ merged = <<>>
    /\ merged' = [ab |-> ReduceOp(op_a, op_b),
                  ba |-> ReduceOp(op_b, op_a),
                  ab_c |-> ReduceOp(ReduceOp(op_a, op_b), op_c),
                  a_bc |-> ReduceOp(op_a, ReduceOp(op_b, op_c))]
    /\ UNCHANGED <<op_a, op_b, op_c, runVars, chattyVars, mapVars, addVars>>

NextMerge == GrowA \/ GrowB \/ GrowC \/ ApplyMerge

SpecMerge == InitMerge /\ [][NextMerge]_vars

\* The sites totals and the global tags totals of an aggregate.
Totals(ps) == [sites |-> ps.sites, tags |-> ps.tags]

\* The operand is an aggregate of the map stage: its site carries tags and
\* its global tags are empty.
IsLineAggregate(op) == op \in LineAggregates

\* C4 as stated: for any two aggregates the reduce closure can be applied
\* to, those of the map stage included, merge(a, b) and merge(b, a) have
\* the same sites totals and the same global tags totals.
C4_MergeCommutes ==
    merged # <<>> => Totals(merged.ab) = Totals(merged.ba)

\* C5: for any three aggregates the reduce closure can be applied to (the
\* identity, those of the map stage, and results of the closure),
\* merge(merge(a, b), c) and merge(a, merge(b, c)) have the same sites
\* totals and the same global tags totals.
C5_MergeAssociates ==
    merged # <<>> => Totals(merged.ab_c) = Totals(merged.a_bc)

\* Both groupings were computed for an aggregate of the map stage, a result
\* of two folds and another aggregate of the map stage, which share a site
\* and a tag.
C5_Witness ==
    /\ merged # <<>>
    /\ IsLineAggregate(op_a) /\ IsLineAggregate(op_c)
    /\ LinesIn(op_b) = 1 /\ op_b.tags # EmptyMap
    /\ "x" \in DOMAIN op_a.sites["a"].tags
    /\ DOMAIN op_b.sites = {"a"} /\ DOMAIN op_c.sites = {"a"}
    /\ merged.ab_c.tags["x"].questions = 2
    /\ merged.ab_c.sites["a"].questions = 3

(* ===================== get_chatty as an operation ===================== *)

\* The ratios of the items of a short vector: 2/2 and 3/2.
ShortRatios == { <<2, 2>>, <<3, 2>> }

\* The ratios of the items that make a vector long: 1/1 and 2/1.
LongRatios == { <<1, 1>>, <<2, 1>> }

InitChatty ==
    /\ RunIdle
    /\ ChattyIdle
    /\ MergeIdle
    /\ MapIdle
    /\ AddIdle

KeysOf(items) == { items[i].key : i \in 1..Len(items) }

\* The caller collects one more (name, ratio): up to MaxPermKeys of the
\* first keys in any order, and from there on the next key.
PushItem ==
    /\ chatty = <<>>
    /\ Len(chatty_items) < MaxKeys
    /\ \E j \in 1..Len(ChattyKeys) :
          /\ ChattyKeys[j] \notin KeysOf(chatty_items)
          /\ j <= (IF Len(chatty_items) < MaxPermKeys
                      THEN MaxPermKeys ELSE Len(chatty_items) + 1)
          /\ \E wq \in (IF Len(chatty_items) < MaxPermKeys
                           THEN ShortRatios ELSE LongRatios) :
                chatty_items' = Append(chatty_items, Item(ChattyKeys[j], wq[1], wq[2]))
    /\ UNCHANGED <<chatty, runVars, mergeVars, mapVars, addVars>>

\* get_chatty(chatty_items) returns.
CallGetChatty ==
    /\ chatty = <<>>
    /\ chatty' = <<GetChatty(chatty_items)>>
    /\ UNCHANGED <<chatty_items, runVars, mergeVars, mapVars, addVars>>

NextChatty == PushItem \/ CallGetChatty

SpecChatty == InitChatty /\ [][NextChatty]_vars

\* The ratio the vector gives to each of its keys.
RatioOfKey ==
    [k \in KeysOf(chatty_items) |->
        chatty_items[CHOOSE i \in 1..Len(chatty_items) : chatty_items[i].key = k].ratio]

\* Key j ranks above key k under the ratios `ratio`: a greater ratio, or
\* the same ratio and a smaller key string.
RanksAbove(ratio, j, k) ==
    \/ RatioLess(ratio[k], ratio[j])
    \/ /\ ~RatioLess(ratio[j], ratio[k])
       /\ BytesLess(Bytes[j], Bytes[k])

\* C6: the keys get_chatty returns are in descending order of ratio, keys
\* of equal ratio in ascending order of the key string, and the place of a
\* key is the number of keys of the vector that rank above it, whatever the
\* order of the vector.
C6_RankingOrder ==
    chatty # <<>> =>
        LET r == chatty[1]
            ratio == RatioOfKey
        IN /\ \A i, j \in 1..Len(r) :
                 i < j =>
                    /\ ~RatioLess(ratio[r[i]], ratio[r[j]])
                    /\ ~RatioLess(ratio[r[j]], ratio[r[i]])
                          => BytesLess(Bytes[r[i]], Bytes[r[j]])
           /\ \A i \in 1..Len(r) :
                 Cardinality({ j \in DOMAIN ratio : RanksAbove(ratio, j, r[i]) }) = i - 1

\* The vector [num2: 2/2, num1: 2/2, num3: 3/2] is ranked num3, num1, num2.
C6_Witness ==
    /\ chatty = << <<"num3", "num1", "num2">> >>
    /\ chatty_items = << Item("num2", 2, 2), Item("num1", 2, 2), Item("num3", 3, 2) >>

\* C7: of a vector of n distinct keys get_chatty returns min(n, 10) keys,
\* all of the vector, none twice, and no key left out ranks above a
\* returned key.
C7_TopTen ==
    chatty # <<>> =>
        LET r == chatty[1]
            n == Len(chatty_items)
            returned == { r[i] : i \in 1..Len(r) }
            ratio == RatioOfKey
        IN /\ Len(r) = (IF n < TopK THEN n ELSE TopK)
           /\ returned \subseteq KeysOf(chatty_items)
           /\ Cardinality(returned) = Len(r)
           /\ \A k \in KeysOf(chatty_items) \ returned :
                 \A k2 \in returned : ~RanksAbove(ratio, k, k2)

\* Of a vector of 11 keys 10 are returned; the key left out has the ratio of
\* the last key returned, and is not the last of the vector.
C7_Witness ==
    /\ chatty # <<>>
    /\ Len(chatty_items) = TopK + 1
    /\ Len(chatty[1]) = TopK
    /\ \E k \in KeysOf(chatty_items) :
          /\ \A i \in 1..TopK : chatty[1][i] # k
          /\ RatioOfKey[k] = RatioOfKey[chatty[1][TopK]]
          /\ chatty_items[Len(chatty_items)].key # k

(* ============ the rankings of the sites' own tags, in a run =========== *)

\* The ratio words/questions of each tag of a tag map.
RatioOfTag(tags) ==
    [t \in DOMAIN tags |-> Ratio(tags[t].words, tags[t].questions)]

\* C18: once process_sites and one process_chatty have run, the chatty_tags
\* of every site are tags of that site, as many as the site has tags and at
\* most 10, and the place of each is the number of tags of the site that
\* rank above it by the site's own words/questions (a greater ratio, or the
\* same ratio and a smaller name), not by the global tags.
C18_SiteChattyTagsFromOwnTags ==
    pc \in {"println", "exit"} =>
        \A s \in DOMAIN processed_sites.sites :
            LET site == processed_sites.sites[s]
                r == site.chatty_tags
                n == Cardinality(DOMAIN site.tags)
                ratio == RatioOfTag(site.tags)
            IN /\ Len(r) = (IF n < TopK THEN n ELSE TopK)
               /\ \A i \in 1..Len(r) :
                     /\ r[i] \in DOMAIN site.tags
                     /\ Cardinality({ t \in DOMAIN ratio :
                                        RanksAbove(ratio, t, r[i]) }) = i - 1

\* Ranked: site a ranks y (3/1) above x (4/2), site b ranks x above y (a
\* tie, 1/1 each), and the global tags rank y (4/2) above x (5/3).
C18_Witness ==
    /\ pc = "println"
    /\ DOMAIN processed_sites.sites = {"a", "b"}
    /\ processed_sites.sites["a"].chatty_tags = <<"y", "x">>
    /\ processed_sites.sites["b"].chatty_tags = <<"x", "y">>
    /\ processed_sites.totals["chatty_tags"] = <<"y", "x">>
    /\ processed_sites.sites["a"].tags["x"] = NewTag(2, 4)
    /\ processed_sites.tags["x"] = NewTag(3, 5)

(* ==================== the map closure as an operation ================= *)

\* The characters of the texts of a line.
Chars == {"a", " ", "\t"}

\* The tags of a line.
TagNames == {"x", "y"}

InitMap ==
    /\ RunIdle
    /\ ChattyIdle
    /\ MergeIdle
    /\ AddIdle
    /\ arg_filename \in SiteNames
    /\ arg_line = LineOf(<<>>, <<>>)
    /\ map_result = <<>>

\* The characters of all the texts.
TotalChars(texts) == Len(Join(texts, <<>>))

\* The line has one more, empty, text.
PushText ==
    /\ map_result = <<>>
    /\ Parses(arg_line)
    /\ Len(arg_line.texts) < MaxTexts
    /\ arg_line' = [arg_line EXCEPT !.texts = Append(@, <<>>)]
    /\ UNCHANGED <<arg_filename, map_result, runVars, chattyVars, mergeVars, addVars>>

\* The last text of the line has one more character.
PushChar ==
    /\ map_result = <<>>
    /\ Parses(arg_line)
    /\ arg_line.texts # <<>>
    /\ TotalChars(arg_line.texts) < MaxChars
    /\ \E c \in Chars :
          arg_line' = [arg_line EXCEPT !.texts[Len(arg_line.texts)] = Append(@, c)]
    /\ UNCHANGED <<arg_filename, map_result, runVars, chattyVars, mergeVars, addVars>>

\* The line has one more tag, which it may hold already.
PushTag ==
    /\ map_result = <<>>
    /\ Parses(arg_line)
    /\ Len(arg_line.tags) < MaxTags
    /\ \E t \in TagNames : arg_line' = [arg_line EXCEPT !.tags = Append(@, t)]
    /\ UNCHANGED <<arg_filename, map_result, runVars, chattyVars, mergeVars, addVars>>

\* The line is one that cannot be read, or is no Line.
Garble ==
    /\ map_result = <<>>
    /\ Parses(arg_line)
    /\ arg_line' = Unparsable
    /\ UNCHANGED <<arg_filename, map_result, runVars, chattyVars, mergeVars, addVars>>

\* The map closure is called on (filename, line).
CallMap ==
    /\ map_result = <<>>
    /\ map_result' = <<MapClosure(arg_filename, arg_line)>>
    /\ UNCHANGED <<arg_filename, arg_line, runVars, chattyVars, mergeVars, addVars>>

\* A folder consumes the aggregate of the line (the file holds the line
\* once more): ReduceFolder::consume into the accumulator op_a.
FoldLine ==
    /\ map_result # <<>>
    /\ ~map_result[1].panic
    /\ LinesIn(op_a) < MaxFolds
    /\ op_a' = Consume(op_a, map_result[1].value)
    /\ UNCHANGED <<op_b, op_c, merged, mapVars, runVars, chattyVars, addVars>>

NextMap == PushText \/ PushChar \/ PushTag \/ Garble \/ CallMap \/ FoldLine

SpecMap == InitMap /\ [][NextMap]_vars

RECURSIVE CountTokens(_, _)
\* The tokens of the text s, read from the left: a token starts at every
\* character that is no whitespace and follows whitespace or nothing.
CountTokens(s, inToken) ==
    IF s = <<>> THEN 0
    ELSE IF s[1] \in Whitespace THEN CountTokens(Tail(s), FALSE)
    ELSE (IF inToken THEN 0 ELSE 1) + CountTokens(Tail(s), TRUE)

RECURSIVE RecordWords(_)
\* The words of a record: the tokens of its texts, text by text.
RecordWords(texts) ==
    IF texts = <<>> THEN 0
    ELSE CountTokens(texts[1], FALSE) + RecordWords(Tail(texts))

\* The map closure returned an aggregate.
Mapped == map_result # <<>> /\ ~map_result[1].panic

\* C14: of a line of W words the map closure makes an aggregate of one
\* site, named by the file, with questions = 1 and words = W, whose tags
\* are the tags of the line, each with questions = 1 and words = W (W is
\* not divided among the tags); its global tags are empty.
C14_MapStageOutput ==
    Mapped =>
        LET value == map_result[1].value
            W == RecordWords(arg_line.texts)
            site == value.sites[arg_filename]
        IN /\ DOMAIN value.sites = {arg_filename}
           /\ site.questions = 1
           /\ site.words = W
           /\ DOMAIN site.tags = { arg_line.tags[i] : i \in 1..Len(arg_line.tags) }
           /\ \A t \in DOMAIN site.tags :
                 site.tags[t].questions = 1 /\ site.tags[t].words = W
           /\ value.tags = EmptyMap

\* The line {"texts": ["a", "a"], "tags": ["x", "y"]} of b.jsonl is mapped:
\* two words, and two words for each of the two tags.
C14_Witness ==
    /\ Mapped
    /\ arg_filename = "b"
    /\ arg_line = LineOf(<< <<"a">>, <<"a">> >>, <<"x", "y">>)
    /\ map_result[1].value.sites["b"].words = 2
    /\ map_result[1].value.sites["b"].tags["x"].words = 2
    /\ map_result[1].value.sites["b"].tags["y"].words = 2

\* C21: the words the map closure counts for a line are the tokens of its
\* texts joined with one space, which are the tokens of each text counted
\* text by text: the last word of a text and the first of the next are two
\* tokens, an empty text and a run of whitespace add none; the texts
\* ["a a", "a"] have 3 words.
C21_WordCount ==
    Mapped =>
        LET texts == arg_line.texts
            W == map_result[1].value.sites[arg_filename].words
        IN /\ W = CountTokens(Join(texts, <<" ">>), FALSE)
           /\ W = RecordWords(texts)
           /\ texts = << <<"a", " ", "a">>, <<"a">> >> => W = 3

\* The line of texts ["a a", "a"] is mapped: 3 words.
C21_Witness ==
    /\ Mapped
    /\ arg_line.texts = << <<"a", " ", "a">>, <<"a">> >>
    /\ map_result[1].value.sites[arg_filename].words = 3

\* The questions and the words of tag t in a tag map: none when it is no key.
CountsOf(tags, t) == IF t \in DOMAIN tags THEN tags[t] ELSE NewTag(0, 0)

\* The tag map of site s of an aggregate: empty when it is no site of it.
SiteTagsOf(ps, s) == IF s \in DOMAIN ps.sites THEN ps.sites[s].tags ELSE EmptyMap

\* C23: when the aggregate of a line of W words is folded into an
\* accumulator, every tag of the line, however often the line repeats it,
\* gains 1 question and W words in the tag map of the line's site and 1
\* question and W words in the global tags; no other tag is added.
C23_RepeatedTagCountedOnce ==
    [][FoldLine =>
          LET W == RecordWords(arg_line.texts)
              lineTags == { arg_line.tags[i] : i \in 1..Len(arg_line.tags) }
              siteBefore == SiteTagsOf(op_a, arg_filename)
              siteAfter == SiteTagsOf(op_a', arg_filename)
          IN /\ DOMAIN siteAfter = DOMAIN siteBefore \cup lineTags
             /\ DOMAIN op_a'.tags = DOMAIN op_a.tags \cup lineTags
             /\ \A t \in lineTags :
                   /\ siteAfter[t].questions = CountsOf(siteBefore, t).questions + 1
                   /\ siteAfter[t].words = CountsOf(siteBefore, t).words + W
                   /\ op_a'.tags[t].questions = CountsOf(op_a.tags, t).questions + 1
                   /\ op_a'.tags[t].words = CountsOf(op_a.tags, t).words + W]_vars

\* The line {"texts": ["a a"], "tags": ["x", "x"]} was mapped and folded
\* twice: tag x has 2 questions and 4 words, in the site and globally.
C23_Witness ==
    /\ Mapped
    /\ arg_line = LineOf(<< <<"a", " ", "a">> >>, <<"x", "x">>)
    /\ LinesIn(op_a) = 2
    /\ op_a.sites[arg_filename].tags = [t \in {"x"} |-> NewTag(2, 4)]
    /\ op_a.tags = [t \in {"x"} |-> NewTag(2, 4)]

(* ================ Site::add and Tag::add as operations ================ *)

\* The counts of the tags of the unit tests.
TagValues == { NewTag(2, 10), NewTag(1, 5) }

\* The tag maps of a site, over the tags x and y.
SiteTagMaps == UNION { [S -> TagValues] : S \in SUBSET TagNames }

\* The chatty_tags of a site.
ChattyChoices == { <<>>, <<"x">>, <<"y">> }

\* The sites handed to Site::add: those of the unit test among them.
SiteChoices ==
    { NewSite(counts.questions, counts.words, tags, chatty_tags) :
        counts \in TagValues, tags \in SiteTagMaps, chatty_tags \in ChattyChoices }

InitAdd ==
    /\ RunIdle
    /\ ChattyIdle
    /\ MergeIdle
    /\ MapIdle
    /\ site1 \in SiteChoices /\ site2 \in SiteChoices
    /\ tag1 \in TagValues /\ tag2 \in TagValues
    /\ called = "none"

\* site1.add(&site2): site1 is borrowed mutably, site2 is not.
CallSiteAdd ==
    /\ called = "none"
    /\ site1' = SiteAdd(site1, site2)
    /\ called' = "Site::add"
    /\ UNCHANGED <<site2, tag1, tag2, runVars, chattyVars, mergeVars, mapVars>>

\* tag1.add(&tag2): tag1 is borrowed mutably, tag2 is not.
CallTagAdd ==
    /\ called = "none"
    /\ tag1' = TagAdd(tag1, tag2)
    /\ called' = "Tag::add"
    /\ UNCHANGED <<tag2, site1, site2, runVars, chattyVars, mergeVars, mapVars>>

NextAdd == CallSiteAdd \/ CallTagAdd

SpecAdd == InitAdd /\ [][NextAdd]_vars

\* C19: site1.add(&site2) leaves in site1 the sums of the questions and of
\* the words of the two sites, and as tags the union of the tags of both: a
\* tag of both with the sums of its questions and of its words, a tag of
\* one of them with the values it had there.
C19_SiteAddSumsAndUnites ==
    [][CallSiteAdd =>
          /\ site1'.questions = site1.questions + site2.questions
          /\ site1'.words = site1.words + site2.words
          /\ DOMAIN site1'.tags = DOMAIN site1.tags \cup DOMAIN site2.tags
          /\ \A t \in DOMAIN site1.tags \cap DOMAIN site2.tags :
                /\ site1'.tags[t].questions =
                       site1.tags[t].questions + site2.tags[t].questions
                /\ site1'.tags[t].words = site1.tags[t].words + site2.tags[t].words
          /\ \A t \in DOMAIN site1.tags \ DOMAIN site2.tags :
                site1'.tags[t] = site1.tags[t]
          /\ \A t \in DOMAIN site2.tags \ DOMAIN site1.tags :
                site1'.tags[t] = site2.tags[t]]_vars

\* site1 after site1.add(&site2): tag x was in both sites and is summed,
\* tag y was in site2 alone and is carried.
C19_Witness ==
    /\ called = "Site::add"
    /\ site2 = NewSite(1, 5, [t \in {"x", "y"} |-> NewTag(1, 5)], <<"y">>)
    /\ site1 = NewSite(3, 15, [t \in {"x", "y"} |->
                                 IF t = "x" THEN NewTag(3, 15) ELSE NewTag(1, 5)],
                       <<"x">>)

\* C20: site1.add(&site2) leaves site2 as it was and the chatty_tags of
\* site1 as they were (those of site2 are not merged in), and
\* tag1.add(&tag2) leaves tag2 as it was.
C20_AddLeavesArgumentAndChattyTags ==
    /\ [][CallSiteAdd =>
              /\ site2' = site2
              /\ site1'.chatty_tags = site1.chatty_tags]_vars
    /\ [][CallTagAdd => tag2' = tag2]_vars

\* As in the unit test add_sites_in_place: site1 = (2, 10, {x: (2, 10)},
\* [x]) after adding site2 = (1, 5, {y: (1, 5)}, [y]).
C20_Witness ==
    /\ called = "Site::add"
    /\ site2 = NewSite(1, 5, [t \in {"y"} |-> NewTag(1, 5)], <<"y">>)
    /\ site1 = NewSite(3, 15, [t \in {"x", "y"} |->
                                 IF t = "x" THEN NewTag(2, 10) ELSE NewTag(1, 5)],
                       <<"x">>)

(* ================= process_chatty as an operation ===================== *)

\* Every partition of `paths` is read and every line of it parsed.
ParsablePaths(paths) ==
    \A i \in 1..Len(paths) :
        /\ paths[i].readable
        /\ \A j \in 1..Len(paths[i].lines) : Parses(paths[i].lines[j])

\* The aggregate process_sites returns for `paths`.
AggregateOf(paths) == SeqFoldPaths(ReduceIdentity, paths)

\* processed_sites is an aggregate process_sites returned.
InitRank ==
    /\ json_paths = <<>> /\ num_threads = 1
    /\ opened = <<>> /\ cursor = <<>> /\ folder = <<>>
    /\ panicked = FALSE /\ stdout = <<>>
    /\ pc = "first_call"
    /\ \E paths \in Inputs(MaxLines) :
          /\ ParsablePaths(paths)
          /\ processed_sites = AggregateOf(paths)
    /\ ChattyIdle
    /\ MergeIdle
    /\ MapIdle
    /\ AddIdle

\* processed_sites.process_chatty(), by a caller that goes from `from` to
\* `to`.
CallProcessChatty(from, to) ==
    /\ pc = from
    /\ \E o \in ChattyOrders(processed_sites) :
          processed_sites' =
              ProcessChatty(processed_sites, o.siteOrder, o.tagOrder, o.siteTagOrder)
    /\ pc' = to
    /\ UNCHANGED <<json_paths, num_threads, opened, cursor, folder, panicked, stdout>>
    /\ UNCHANGED <<chattyVars, mergeVars, mapVars, addVars>>

\* The aggregate of process_sites is ranked.
FirstCall == CallProcessChatty("first_call", "second_call")

\* The ranked aggregate is ranked once more.
SecondCall == CallProcessChatty("second_call", "called")

NextRank == FirstCall \/ SecondCall

SpecRank == InitRank /\ [][NextRank]_vars

\* C22 as stated: a second call of process_chatty on the aggregate leaves
\* totals and the chatty_tags of every site as they were after the first
\* call, and no chatty_tags has more than 10 entries.
C22_ProcessChattyIdempotent ==
    [][SecondCall =>
          /\ processed_sites'.totals = processed_sites.totals
          /\ \A s \in DOMAIN processed_sites.sites :
                /\ processed_sites'.sites[s].chatty_tags =
                       processed_sites.sites[s].chatty_tags
                /\ Len(processed_sites'.sites[s].chatty_tags) <= TopK]_vars

====
